---- MODULE Spec2Model ----
(***************************************************************************)
(* Budget analyst: the Home page state machine (budget parameters,         *)
(* iteration ledger, projection, auto-fill / reconciliation) and the       *)
(* snapshot persistence adapter (local storage plus remote store).         *)
(*                                                                         *)
(* Numbers are modelled as integers.  A percentage is kept as an exact     *)
(* fraction [num, den] so that no rounding is introduced by the model.     *)
(***************************************************************************)
EXTENDS Integers, Sequences, FiniteSets, TLC

VARIABLES
    mounted,              \* Home has run its mount effects
    budgetParams,         \* useState<BudgetParams>
    iterations,           \* useState<IterationData[]>  (the ledger)
    newIteration,         \* useState<IterationData>    (the add form)
    iterationsPreFilled,  \* useState<boolean>
    chartData,            \* useState<ChartData[]>
    toasts,               \* toast.error / toast.warning calls of the last handler
    effect,               \* the effect that stored the ledger in the last render
    steps                 \* handlers run since the page was mounted

homeVars == <<mounted, budgetParams, iterations, newIteration,
              iterationsPreFilled, chartData, toasts, effect, steps>>

VARIABLES
    localStorage,         \* the parsed STORAGE_KEY item of the device's local storage
    database,             \* the remote savedState table, in creation order
    now,                  \* Date.now()
    calls,                \* the stateManager calls in progress or just completed
    started,              \* stateManager calls made so far
    history               \* the ids deleteState was called for, the saves completed

storeVars == <<localStorage, database, now, calls, started, history>>

VARIABLES
    user,                 \* AuthProvider: useState<User | null>
    isAuthenticated,      \* AuthProvider: useState(false)
    storedUser,           \* the 'budget-app-user' item of the device's local storage
    providerMounted,      \* AuthProvider has run its mount effect
    authLog               \* the calls of login and logout and the reloads so far

authVars == <<user, isAuthenticated, storedUser, providerMounted, authLog>>

VARIABLES
    savedStates_table,    \* the saved_states table that the cleanup route works on
    today,                \* the server's clock, in days
    cleanupLog            \* the steps on the table so far, with what each gave

cleanupVars == <<savedStates_table, today, cleanupLog>>

VARIABLES
    managerSavedStates,   \* SaveStateManager: useState<SavedState[]> (savedStates)
    managerLog            \* the handlers of SaveStateManager that completed so far

managerVars == <<managerSavedStates, managerLog>>

vars == <<homeVars, storeVars, authVars, cleanupVars, managerVars>>

(***************************************************************************)
(* Program constants and bounds                                            *)
(***************************************************************************)
MaxIterations == 100
HoursPerDay == 8
RegenerateTolerance == 3
RetentionDays == 30

\* A session runs at most MaxSteps handlers after the page is mounted.
MaxSteps == 3

\* The model adds iterations by hand to ledgers shorter than MaxAddLen (and
\* tries to on a full ledger).
MaxAddLen == 4

\* A session of the auth gate makes at most MaxAuthSteps calls and reloads.
MaxAuthSteps == 3

\* The table of the cleanup route sees at most MaxCleanupSteps inserts, days
\* passing and cleanups.
MaxCleanupSteps == 6

\* Inline edits and the current-iteration checkbox are exercised on the
\* rows with these iteration numbers.
EditableNumbers == {2}
MarkableNumbers == {1, 3}

CostValues == {20, -20}
BudgetValues == {0, 50000, 2500000}
TeamValues == {4, 5}
DayValues == {10}
CurrencyValues == {"EUR"}

\* Values typed into the add-iteration form and into the ledger table.
FormNumberValues == {0, 1, 7}
FormDayValues == {0, 4}
FormTeamValues == {0, 3}
FormHourValues == {0, 50}
EditDayValues == {4}
EditTeamValues == {2}
EditHourValues == {100}

(***************************************************************************)
(* Arithmetic helpers                                                      *)
(***************************************************************************)
\* Math.ceil(a / b) for b > 0
Ceil(a, b) == -((-a) \div b)

Min(a, b) == IF a <= b THEN a ELSE b

Abs(a) == IF a < 0 THEN -a ELSE a

\* `x || d` on numbers: 0 (and NaN) are falsy
OrElse(x, d) == IF x = 0 THEN d ELSE x

(***************************************************************************)
(* Ledger records                                                          *)
(***************************************************************************)
Iteration(n, d, t, h, c) ==
    [iterationNumber |-> n, iterationDays |-> d, teamSize |-> t,
     totalHours |-> h, isCurrent |-> c]

\* iteration.totalHours || (iteration.iterationDays * iteration.teamSize * 8)
TotalHoursOf(it) ==
    OrElse(it.totalHours, it.iterationDays * it.teamSize * HoursPerDay)

\* [...iterations].sort((a, b) => a.iterationNumber - b.iterationNumber)
\* Array.prototype.sort is stable: equal numbers keep their relative order.
\* The record at index i lands at position
\*   #{j : number[j] < number[i]} + #{j <= i : number[j] = number[i]}.
\* (A ledger already in order is returned as it is.)
SortByNumber(its) ==
    LET n == Len(its)
        number == [i \in 1..n |-> its[i].iterationNumber]
        position == [i \in 1..n |->
            Cardinality({j \in 1..n : number[j] < number[i]})
            + Cardinality({j \in 1..i : number[j] = number[i]})]
        source == [k \in 1..n |-> CHOOSE i \in 1..n : position[i] = k]
    IN IF \A i \in 1..(n - 1) : number[i] <= number[i + 1] THEN its
       ELSE [k \in 1..n |-> its[source[k]]]

\* The sum f[lo] + ... + f[hi] of a running total (halving keeps the
\* evaluation shallow for ledgers of 100 records).
RECURSIVE SumRange(_, _, _)
SumRange(f, lo, hi) ==
    IF lo > hi THEN 0
    ELSE IF lo = hi THEN f[lo]
    ELSE LET mid == (lo + hi) \div 2
         IN SumRange(f, lo, mid) + SumRange(f, mid + 1, hi)

\* Index (1-based) of the first element satisfying a predicate, 0 if none.
FirstIndex(s, P(_)) ==
    IF \E i \in 1..Len(s) : P(s[i])
    THEN CHOOSE i \in 1..Len(s) : P(s[i]) /\ \A j \in 1..(i - 1) : ~P(s[j])
    ELSE 0

\* sortedIterations.find(it => it.isCurrent) followed by
\* findIndex(it => it.iterationNumber === currentIteration.iterationNumber),
\* or the last index when no record is flagged.  1-based.
CurrentIterationIndex(sorted) ==
    LET IsCur(it) == it.isCurrent
        c == FirstIndex(sorted, IsCur)
    IN IF c = 0 THEN Len(sorted)
       ELSE LET SameNumber(it) == it.iterationNumber = sorted[c].iterationNumber
            IN FirstIndex(sorted, SameNumber)

(***************************************************************************)
(* Projection engine (chart data effect)                                   *)
(***************************************************************************)
StandardHoursPerIteration(p) == HoursPerDay * p.teamSize * p.workingDaysPerIteration

StandardIterationCost(p) == p.costPerHour * StandardHoursPerIteration(p)

\* costPerHour * totalHours
IterationCost(p, it) == p.costPerHour * TotalHoursOf(it)

StartPoint ==
    [name |-> <<"Start">>, iterationCost |-> 0,
     cumulativeStandard |-> 0, cumulativeActual |-> 0]

\* The running totals <<f[lo], f[lo] + f[lo+1], ..., f[lo] + ... + f[hi]>> that
\* a loop accumulating f[lo..hi] goes through (computed by halves).
RECURSIVE RunningSums(_, _, _)
RunningSums(f, lo, hi) ==
    IF lo > hi THEN <<>>
    ELSE IF lo = hi THEN <<f[lo]>>
    ELSE LET mid == (lo + hi) \div 2
             left == RunningSums(f, lo, mid)
             right == RunningSums(f, mid + 1, hi)
         IN left \o [i \in 1..Len(right) |-> left[Len(left)] + right[i]]

\* The actual sum advanced by the record's own cost at every index
ActualIncrementOwnCost(p, sorted, cur, k) == IterationCost(p, sorted[k])

\* What one pass of sortedIterations.forEach adds to cumulativeActual at
\* index k: the record's own cost up to the current index, the standard cost
\* after it.
ActualIncrement(p, sorted, cur, k) ==
    IF k <= cur THEN IterationCost(p, sorted[k]) ELSE StandardIterationCost(p)

\* The standard sum advanced by the record's own cost instead
StandardIncrementOwnCost(p, sorted, k) == p.costPerHour * sorted[k].totalHours

\* What one pass adds to cumulativeStandard at index k.
StandardIncrement(p, sorted, k) == StandardIterationCost(p)

\* The data array the effect hands to setChartData: the start point, then one
\* point per record whose running sums hold the increments of passes 1..k.
ComputeChartData(p, its) ==
    LET sorted == SortByNumber(its)
        cur == CurrentIterationIndex(sorted)
        std == [j \in 1..Len(sorted) |-> StandardIncrement(p, sorted, j)]
        act == [j \in 1..Len(sorted) |-> ActualIncrement(p, sorted, cur, j)]
        cumulativeStandard == RunningSums(std, 1, Len(sorted))
        cumulativeActual == RunningSums(act, 1, Len(sorted))
    IN [i \in 1..(Len(sorted) + 1) |->
           IF i = 1 THEN StartPoint
           ELSE [name |-> <<"Iteration", sorted[i - 1].iterationNumber>>,
                 iterationCost |-> IF i - 1 <= cur
                                   THEN IterationCost(p, sorted[i - 1]) ELSE 0,
                 cumulativeStandard |-> cumulativeStandard[i - 1],
                 cumulativeActual |-> cumulativeActual[i - 1]]]

(***************************************************************************)
(* Budget metrics                                                          *)
(***************************************************************************)
Fraction(n, d) == [num |-> n, den |-> d]

\* calculateBudgetMetrics: percentage is (cumulativeActual / budgetSize) * 100,
\* kept as the exact fraction 100 * cumulativeActual / budgetSize.
calculateBudgetMetrics(cd, p, its) ==
    IF Len(cd) = 0 \/ p.budgetSize = 0
    THEN [percentage |-> Fraction(0, 1), consumed |-> 0]
    ELSE LET sorted == SortByNumber(its)
             IsCur(it) == it.isCurrent
             c == FirstIndex(sorted, IsCur)
             latestData == cd[Len(cd)]
             HasName(pt) == pt.name = <<"Iteration", sorted[c].iterationNumber>>
             d == IF c = 0 THEN 0 ELSE FirstIndex(cd, HasName)
             point == IF d = 0 THEN latestData ELSE cd[d]
         IN [percentage |-> Fraction(100 * point.cumulativeActual, p.budgetSize),
             consumed |-> point.cumulativeActual]

(***************************************************************************)
(* Auto-fill                                                               *)
(***************************************************************************)
\* generateIterationsToFullBudget without the "Limit to 100 iterations maximum" line
generateIterationsUncapped(p) ==
    LET hoursPerIteration == HoursPerDay * p.teamSize * p.workingDaysPerIteration
        costPerIteration == p.costPerHour * hoursPerIteration
    IN IF costPerIteration <= 0 \/ p.budgetSize <= 0 THEN <<>>
       ELSE [i \in 1..Ceil(p.budgetSize, costPerIteration) |->
                [iterationNumber |-> i, iterationDays |-> p.workingDaysPerIteration,
                 teamSize |-> p.teamSize, totalHours |-> hoursPerIteration,
                 isCurrent |-> i = Ceil(p.budgetSize, costPerIteration)]]

\* generateIterationsToFullBudget
generateIterationsToFullBudget(p) ==
    LET hoursPerIteration == StandardHoursPerIteration(p)
        costPerIteration == p.costPerHour * hoursPerIteration
    IN IF costPerIteration <= 0 \/ p.budgetSize <= 0 THEN <<>>
       ELSE LET iterationsNeeded == Ceil(p.budgetSize, costPerIteration)
                iterationCount == Min(iterationsNeeded, MaxIterations)
            IN [i \in 1..iterationCount |->
                   Iteration(i, p.workingDaysPerIteration, p.teamSize,
                             hoursPerIteration, i = iterationCount)]

\* Math.max(...its.map(it => it.iterationNumber)) on a nonempty ledger
MaxIterationNumber(its) ==
    CHOOSE n \in {its[i].iterationNumber : i \in 1..Len(its)} :
        \A i \in 1..Len(its) : its[i].iterationNumber <= n

\* for (i = 0; i <= currentIterationIndex; i++) cumulativeActual += costPerHour * totalHours
SumActual(p, sorted, cur) ==
    SumRange([j \in 1..Len(sorted) |-> p.costPerHour * TotalHoursOf(sorted[j])], 1, cur)

\* The default-shaped records appended after the existing ones.
AppendedIterations(p, maxNumber, count) ==
    [i \in 1..count |->
        Iteration(maxNumber + i, p.workingDaysPerIteration, p.teamSize,
                  StandardHoursPerIteration(p), FALSE)]

\* A reconciliation that leaves the ledger as it is
ledgerLeftAsItIs(p, its) == its

\* ensureActualCumulativeCrossesTotalBudget
ensureActualCumulativeCrossesTotalBudget(p, its) ==
    IF Len(its) = 0 THEN its
    ELSE IF StandardIterationCost(p) <= 0 \/ p.budgetSize <= 0 THEN its
    ELSE
      LET sorted == SortByNumber(its)
          cur == CurrentIterationIndex(sorted)
          cumulativeActual == SumActual(p, sorted, cur)
          standardIterationCost == StandardIterationCost(p)
          iterationsNeededFromStart == Ceil(p.budgetSize, standardIterationCost)
          projectedCumulative ==
              cumulativeActual + (Len(sorted) - cur) * standardIterationCost
          remainingBudget == p.budgetSize - projectedCumulative
          additionalIterationsNeeded == Ceil(remainingBudget, standardIterationCost)
          iterationsToAdd ==
              Min(additionalIterationsNeeded, MaxIterations - Len(sorted))
      IN IF p.budgetSize < cumulativeActual
            \/ Abs(iterationsNeededFromStart - Len(sorted)) > RegenerateTolerance
         THEN generateIterationsToFullBudget(p)
         ELSE IF projectedCumulative >= p.budgetSize THEN sorted
         ELSE IF iterationsToAdd <= 0 THEN sorted
         ELSE sorted \o AppendedIterations(p, MaxIterationNumber(sorted), iterationsToAdd)

\* updatedIterations.map(it => ({...it, isCurrent: it.iterationNumber === n}))
MarkOnly(its, n) ==
    [i \in 1..Len(its) |-> [its[i] EXCEPT !.isCurrent = (its[i].iterationNumber = n)]]

\* iterations.find(it => it.isCurrent): index of the first flagged record, 0 if none
FindCurrent(its) ==
    LET IsCur(it) == it.isCurrent IN FirstIndex(its, IsCur)

\* The ledger that results from handing `updated` to setIterations while
\* keeping the record that was current in `its` flagged.
PreserveCurrent(its, updated) ==
    IF FindCurrent(its) # 0
    THEN MarkOnly(updated, its[FindCurrent(its)].iterationNumber)
    ELSE updated

(***************************************************************************)
(* Effects: what React runs after a handler has set state                  *)
(***************************************************************************)
\* The state after the handler's setState calls (p, its, pre, form) have been
\* rendered and every effect has run to quiescence.  `changed` tells whether
\* the handler stored a new budgetParams object.
\*  - Pre-fill effect: only when no iterations exist and none were pre-filled,
\*    it stores the generated ledger if that is not empty.
\*  - Reconciliation effect (deps [budgetParams]): runs, through a zero-delay
\*    timer, for a render that has iterations and a new budgetParams object,
\*    and stores the reconciled ledger when its length differs.
\*  - Chart effect: recomputes chartData from the final parameters and ledger.
Render(p, its, pre, form, changed, ts) ==
    LET gen == generateIterationsToFullBudget(p)
        upd == ensureActualCumulativeCrossesTotalBudget(p, its)
        preFill == Len(its) = 0 /\ ~pre /\ Len(gen) > 0
        reconcile == ~preFill /\ changed /\ Len(its) > 0 /\ Len(upd) # Len(its)
        its2 == IF preFill THEN gen
                ELSE IF reconcile THEN PreserveCurrent(its, upd)
                ELSE its
    IN /\ budgetParams' = p
       /\ iterations' = its2
       /\ iterationsPreFilled' = (pre \/ preFill)
       /\ newIteration' =
            IF preFill THEN [form EXCEPT !.iterationNumber = Len(gen) + 1]
            ELSE IF reconcile
            THEN [form EXCEPT !.iterationNumber = MaxIterationNumber(upd) + 1]
            ELSE form
       /\ chartData' = ComputeChartData(p, its2)
       /\ toasts' = ts
       /\ effect' = IF preFill THEN "prefill"
                    ELSE IF reconcile THEN "reconcile" ELSE "none"
       /\ UNCHANGED <<storeVars, authVars, cleanupVars, managerVars>>

(***************************************************************************)
(* Home: construction and handlers                                         *)
(***************************************************************************)
HomeInit ==
    /\ mounted = FALSE
    /\ budgetParams = [costPerHour |-> 50, budgetSize |-> 100000, teamSize |-> 5,
                       workingDaysPerIteration |-> 10, currency |-> "$"]
    /\ iterations = <<>>
    /\ newIteration = [iterationNumber |-> 1, iterationDays |-> 10, teamSize |-> 5,
                       totalHours |-> 400, isCurrent |-> FALSE]
    /\ iterationsPreFilled = FALSE
    /\ chartData = <<>>
    /\ toasts = {}
    /\ effect = "none"
    /\ steps = 0

\* One more handler runs on the mounted page.
UserStep ==
    /\ mounted
    /\ steps < MaxSteps
    /\ steps' = steps + 1
    /\ UNCHANGED mounted

\* First render: the chart effect and the pre-fill effect run.
Mount ==
    /\ ~mounted
    /\ mounted' = TRUE
    /\ UNCHANGED steps
    /\ Render(budgetParams, iterations, iterationsPreFilled, newIteration, TRUE, {})

NumericParamValues(name) ==
    CASE name = "costPerHour" -> CostValues
      [] name = "budgetSize" -> BudgetValues
      [] name = "teamSize" -> TeamValues
      [] name = "workingDaysPerIteration" -> DayValues

NumericParamNames == {"costPerHour", "budgetSize", "teamSize", "workingDaysPerIteration"}

\* handleParamChange
handleParamChange(name, value) ==
    /\ mounted
    /\ Render([budgetParams EXCEPT ![name] = value],
              iterations,
              IF Len(iterations) = 0 THEN FALSE ELSE iterationsPreFilled,
              newIteration, TRUE, {})
    /\ UserStep

FormValues(name) ==
    CASE name = "iterationNumber" -> FormNumberValues
      [] name = "iterationDays" -> FormDayValues
      [] name = "teamSize" -> FormTeamValues
      [] name = "totalHours" -> FormHourValues

FormNames == {"iterationNumber", "iterationDays", "teamSize", "totalHours"}

\* handleIterationChange: value is parseFloat(text) || 0
handleIterationChange(name, value) ==
    /\ mounted
    /\ LET updated == [newIteration EXCEPT ![name] = value]
           form == IF name = "iterationDays" \/ name = "teamSize"
                   THEN [updated EXCEPT !.totalHours =
                            updated.iterationDays * updated.teamSize * HoursPerDay]
                   ELSE updated
       IN Render(budgetParams, iterations, iterationsPreFilled, form, FALSE, {})
    /\ UserStep

\* The validation without the search for the form's number in the ledger.
addIterationErrorNoSearch(its, form) ==
    IF Len(its) >= MaxIterations THEN "error:maximum-iterations"
    ELSE IF form.iterationNumber <= 0 \/ form.iterationDays <= 0 \/ form.teamSize <= 0
    THEN "error:values-must-be-positive"
    ELSE ""

\* The validation without the limit on the number of records.
addIterationErrorUnlimited(its, form) ==
    IF form.iterationNumber <= 0 \/ form.iterationDays <= 0 \/ form.teamSize <= 0
    THEN "error:values-must-be-positive"
    ELSE IF \E i \in 1..Len(its) : its[i].iterationNumber = form.iterationNumber
    THEN "error:iteration-exists"
    ELSE ""

\* The validation of addIteration: the error it reports, or "" when it accepts.
addIterationError(its, form) ==
    IF Len(its) >= MaxIterations THEN "error:maximum-iterations"
    ELSE IF form.iterationNumber <= 0 \/ form.iterationDays <= 0 \/ form.teamSize <= 0
    THEN "error:values-must-be-positive"
    ELSE IF \E i \in 1..Len(its) : its[i].iterationNumber = form.iterationNumber
    THEN "error:iteration-exists"
    ELSE ""

\* addIteration
addIteration ==
    /\ mounted
    /\ Len(iterations) < MaxAddLen \/ Len(iterations) >= MaxIterations
    /\ LET err == addIterationError(iterations, newIteration)
           iterationToAdd ==
               IF newIteration.totalHours <= 0
               THEN [newIteration EXCEPT !.totalHours =
                        newIteration.iterationDays * newIteration.teamSize * HoursPerDay]
               ELSE newIteration
           nextIteration ==
               [newIteration EXCEPT
                   !.iterationNumber = newIteration.iterationNumber + 1,
                   !.totalHours = newIteration.iterationDays * newIteration.teamSize
                                    * HoursPerDay]
       IN IF err # ""
          THEN Render(budgetParams, iterations, iterationsPreFilled, newIteration,
                      FALSE, {err})
          ELSE Render(budgetParams, Append(iterations, iterationToAdd),
                      iterationsPreFilled, nextIteration, FALSE, {})
    /\ UserStep

\* "Regenerate Iterations" button
regenerateIterations ==
    /\ mounted
    /\ LET gen == generateIterationsToFullBudget(budgetParams)
       IN Render(budgetParams, gen, TRUE,
                 [newIteration EXCEPT !.iterationNumber = Len(gen) + 1],
                 FALSE, {})
    /\ UserStep

\* "Add Iterations to Reach Budget" button
addIterationsToReachBudget ==
    /\ mounted
    /\ LET upd == ensureActualCumulativeCrossesTotalBudget(budgetParams, iterations)
       IN IF Len(upd) > Len(iterations)
          THEN Render(budgetParams, PreserveCurrent(iterations, upd),
                      iterationsPreFilled,
                      [newIteration EXCEPT !.iterationNumber = MaxIterationNumber(upd) + 1],
                      FALSE, {})
          ELSE Render(budgetParams, iterations, iterationsPreFilled, newIteration,
                      FALSE, {})
    /\ UserStep

\* Rows of the ledger table (the sorted ledger) that the model edits or marks.
EditableRows ==
    LET sorted == SortByNumber(iterations)
    IN {r \in 1..Len(sorted) : sorted[r].iterationNumber \in EditableNumbers}

MarkableRows ==
    LET sorted == SortByNumber(iterations)
    IN {r \in 1..Len(sorted) : sorted[r].iterationNumber \in MarkableNumbers}

\* updatedIterations.sort(...).findIndex(it => it.iterationNumber === iteration.iterationNumber)
SortedIndexOfRow(sorted, r) ==
    LET SameNumber(it) == it.iterationNumber = sorted[r].iterationNumber
    IN FirstIndex(sorted, SameNumber)

WasManuallySet(it) ==
    it.totalHours # it.iterationDays * it.teamSize * HoursPerDay

\* Inline edit of a row's days
editIterationDays(r, value) ==
    /\ mounted
    /\ r \in EditableRows
    /\ LET sorted == SortByNumber(iterations)
           k == SortedIndexOfRow(sorted, r)
           updated == [sorted EXCEPT ![k] =
               [sorted[k] EXCEPT
                   !.iterationDays = value,
                   !.totalHours = IF WasManuallySet(sorted[k]) THEN sorted[k].totalHours
                                  ELSE value * sorted[k].teamSize * HoursPerDay]]
       IN IF value <= 0
          THEN Render(budgetParams, iterations, iterationsPreFilled, newIteration,
                      FALSE, {"error:days-must-be-positive"})
          ELSE Render(budgetParams, updated, iterationsPreFilled, newIteration,
                      FALSE, {})
    /\ UserStep

\* Inline edit of a row's team size
editIterationTeamSize(r, value) ==
    /\ mounted
    /\ r \in EditableRows
    /\ LET sorted == SortByNumber(iterations)
           k == SortedIndexOfRow(sorted, r)
           updated == [sorted EXCEPT ![k] =
               [sorted[k] EXCEPT
                   !.teamSize = value,
                   !.totalHours = IF WasManuallySet(sorted[k]) THEN sorted[k].totalHours
                                  ELSE sorted[k].iterationDays * value * HoursPerDay]]
       IN IF value <= 0
          THEN Render(budgetParams, iterations, iterationsPreFilled, newIteration,
                      FALSE, {"error:team-size-must-be-positive"})
          ELSE Render(budgetParams, updated, iterationsPreFilled, newIteration,
                      FALSE, {})
    /\ UserStep

\* Inline edit of a row's total hours (the override)
editIterationTotalHours(r, value) ==
    /\ mounted
    /\ r \in EditableRows
    /\ LET sorted == SortByNumber(iterations)
           k == SortedIndexOfRow(sorted, r)
           updated == [sorted EXCEPT ![k] = [sorted[k] EXCEPT !.totalHours = value]]
       IN IF value <= 0
          THEN Render(budgetParams, iterations, iterationsPreFilled, newIteration,
                      FALSE, {"error:total-hours-must-be-positive"})
          ELSE Render(budgetParams, updated, iterationsPreFilled, newIteration,
                      FALSE, {})
    /\ UserStep

\* Current-iteration checkbox of row r
markIterationCurrent(r) ==
    /\ mounted
    /\ r \in MarkableRows
    /\ Render(budgetParams,
              MarkOnly(iterations, SortByNumber(iterations)[r].iterationNumber),
              iterationsPreFilled, newIteration, FALSE, {})
    /\ UserStep

(***************************************************************************)
(* CSV import and export                                                   *)
(***************************************************************************)
\* A parsed CSV cell is the text of a number, <<n>>, or text that is no number
\* (blank, missing column), <<>>.
NoNumber == <<>>

\* parseFloat(cell) || d : NaN and 0 both give d
ParseFloatOr(cell, d) == IF cell = NoNumber THEN d ELSE OrElse(cell[1], d)

\* `${n}` for a number field of the exported row
NumberText(n) == <<n>>

\* generateParametersTemplate: the single data row under the header
\* costPerHour,budgetSize,teamSize,workingDaysPerIteration,currency
generateParametersTemplate(p) ==
    [costPerHour |-> NumberText(p.costPerHour),
     budgetSize |-> NumberText(p.budgetSize),
     teamSize |-> NumberText(p.teamSize),
     workingDaysPerIteration |-> NumberText(p.workingDaysPerIteration),
     currency |-> p.currency]

\* Parameter files offered to the import besides the current export.
ParameterFiles ==
    {[costPerHour |-> <<10>>, budgetSize |-> <<50000>>, teamSize |-> <<5>>,
      workingDaysPerIteration |-> <<10>>, currency |-> "EUR"],
     [costPerHour |-> NoNumber, budgetSize |-> <<0>>, teamSize |-> <<5>>,
      workingDaysPerIteration |-> <<10>>, currency |-> ""]}

\* handleFileUpload, parameters branch (first row has a costPerHour column)
importParameters(row) ==
    /\ mounted
    /\ Render([costPerHour |-> ParseFloatOr(row.costPerHour, 50),
               budgetSize |-> ParseFloatOr(row.budgetSize, 100000),
               teamSize |-> ParseFloatOr(row.teamSize, 5),
               workingDaysPerIteration |-> ParseFloatOr(row.workingDaysPerIteration, 10),
               currency |-> IF row.currency = "" THEN "$" ELSE row.currency],
              iterations, FALSE, newIteration, TRUE, {})
    /\ UserStep

CsvRow(n, d, t, h, c) ==
    [iterationNumber |-> n, iterationDays |-> d, teamSize |-> t,
     totalHours |-> h, isCurrent |-> c]

\* Iteration files offered to the import.
FileOverrides ==
    <<CsvRow(<<1>>, <<10>>, <<5>>, <<300>>, "false"),
      CsvRow(<<2>>, <<10>>, <<5>>, NoNumber, "true"),
      CsvRow(<<3>>, <<10>>, <<5>>, <<450>>, "false")>>

FileDuplicateNumbers ==
    <<CsvRow(<<1>>, <<10>>, <<5>>, <<100>>, "false"),
      CsvRow(<<1>>, <<10>>, <<5>>, <<200>>, "true")>>

FileInvalidRows ==
    <<CsvRow(<<1>>, <<0>>, <<5>>, NoNumber, "false"),
      CsvRow(<<2>>, <<10>>, <<5>>, <<-40>>, "false"),
      CsvRow(NoNumber, <<10>>, <<5>>, <<400>>, "true")>>

FileTwoCurrent ==
    <<CsvRow(<<2>>, <<10>>, <<5>>, <<400>>, "true"),
      CsvRow(<<1>>, <<10>>, <<5>>, <<400>>, "true")>>

FileLong ==
    [i \in 1..(MaxIterations + 1) |-> CsvRow(<<i>>, <<10>>, <<5>>, <<400>>, "false")]

IterationFiles ==
    {FileOverrides, FileDuplicateNumbers, FileInvalidRows, FileTwoCurrent, FileLong}

\* The map callback of the iterations branch
ParseIterationRow(item) ==
    LET n == ParseFloatOr(item.iterationNumber, 0)
        d == ParseFloatOr(item.iterationDays, 0)
        t == ParseFloatOr(item.teamSize, 0)
        h == ParseFloatOr(item.totalHours, 0)
    IN Iteration(n, d, t, IF h = 0 THEN d * t * HoursPerDay ELSE h,
                 item.isCurrent = "true")

\* newIterations.filter(it => it.iterationNumber > 0 && it.iterationDays > 0 && it.teamSize > 0)
ValidIterations(its) ==
    LET Valid(it) == it.iterationNumber > 0 /\ it.iterationDays > 0 /\ it.teamSize > 0
    IN SelectSeq(its, Valid)

\* The map over every row of the file, without the slice.
ParsedIterationsUnsliced(file) ==
    [i \in 1..Len(file) |-> ParseIterationRow(file[i])]

\* parsedData.slice(0, 100).map(...)
ParsedIterations(file) ==
    [i \in 1..Min(Len(file), MaxIterations) |-> ParseIterationRow(file[i])]

\* handleFileUpload, iterations branch (first row has an iterationNumber column)
importIterations(file) ==
    /\ mounted
    /\ LET newIterations == ParsedIterations(file)
           validIterations == ValidIterations(newIterations)
       IN Render(budgetParams, validIterations, TRUE, newIteration, FALSE,
                 (IF Len(file) > MaxIterations THEN {"error:more-than-100-rows"} ELSE {})
                 \cup (IF Len(validIterations) # Len(newIterations)
                       THEN {"warning:invalid-rows-skipped"} ELSE {}))
    /\ UserStep

\* Snapshots found in the saved-states list: the page as it was after mount,
\* and the page after the import of FileOverrides, saved by an older revision
\* that stored no currency and saved by this one.  (visibleChartItems is not read by the load.)
DefaultBudgetParams ==
    [costPerHour |-> 50, budgetSize |-> 100000, teamSize |-> 5,
     workingDaysPerIteration |-> 10, currency |-> "$"]

AppState(p, its) ==
    [budgetParams |-> p, iterations |-> its, chartData |-> ComputeChartData(p, its)]

SavedAppStates ==
    {AppState(DefaultBudgetParams, generateIterationsToFullBudget(DefaultBudgetParams)),
     AppState([DefaultBudgetParams EXCEPT !.currency = ""],
              ValidIterations(ParsedIterations(FileOverrides))),
     AppState(DefaultBudgetParams,
              ValidIterations(ParsedIterations(FileOverrides)))}

\* handleLoadState: the snapshot's parameters (currency defaulting to "$"),
\* ledger and chart replace the page's; the ledger counts as pre-filled and
\* the form's number follows the highest number of a non-empty ledger.
handleLoadState(state) ==
    /\ mounted
    /\ LET updatedBudgetParams ==
               [state.budgetParams EXCEPT !.currency = IF @ = "" THEN "$" ELSE @]
           form == IF Len(state.iterations) > 0
                   THEN [newIteration EXCEPT
                           !.iterationNumber = MaxIterationNumber(state.iterations) + 1]
                   ELSE newIteration
       IN Render(updatedBudgetParams, state.iterations, TRUE, form, TRUE, {})
    /\ UserStep

(***************************************************************************)
(* The auth gate: AuthProvider                                             *)
(***************************************************************************)
HardcodedUsername == "IziDrop"
\* The password is written in three parts: its eleventh character, the grave
\* accent (character code 96), cannot stand in a string of this language.
HardcodedPassword == <<"HX6;D]xtyC", 96, "YFR\"48nr/hv">>

\* The strings typed into the login dialog: the hardcoded ones, the username
\* in lower case and the password with an apostrophe (39) for the accent.
Usernames == {HardcodedUsername, "izidrop"}
Passwords == {HardcodedPassword, <<"HX6;D]xtyC", 39, "YFR\"48nr/hv">>}

NoStoredUser == <<>>
NullUser == [id |-> ""]
IziDropUser == [id |-> "IziDrop"]

\* JSON.stringify(user) and JSON.parse(storedUser)
Stringify(u) == <<"{\"id\":", u.id, "}">>
IsJson(text) == Len(text) = 3 /\ text[1] = "{\"id\":" /\ text[3] = "}"
Parse(text) == [id |-> text[2]]

AuthInit ==
    /\ user = NullUser
    /\ isAuthenticated = FALSE
    /\ storedUser = NoStoredUser
    /\ providerMounted = FALSE
    /\ authLog = <<>>

\* One more call or reload in the session
AuthStep(event) ==
    /\ providerMounted
    /\ Len(authLog) < MaxAuthSteps
    /\ authLog' = Append(authLog, event)

\* The mount effect: a stored user that parses is restored; one that does not
\* is removed.
restoreUser ==
    /\ ~providerMounted
    /\ providerMounted' = TRUE
    /\ IF storedUser = NoStoredUser
       THEN UNCHANGED <<user, isAuthenticated, storedUser>>
       ELSE IF IsJson(storedUser)
       THEN /\ user' = Parse(storedUser)
            /\ isAuthenticated' = TRUE
            /\ UNCHANGED storedUser
       ELSE /\ storedUser' = NoStoredUser
            /\ UNCHANGED <<user, isAuthenticated>>
    /\ UNCHANGED <<authLog, homeVars, storeVars, cleanupVars, managerVars>>

\* The test on the username alone
usernameMatches(username, password) == username = HardcodedUsername

\* The credentials test of login
credentialsMatch(username, password) ==
    username = HardcodedUsername /\ password = HardcodedPassword

\* login
login(username, password) ==
    /\ AuthStep([op |-> "login", username |-> username, password |-> password,
                 returned |-> credentialsMatch(username, password)])
    /\ IF credentialsMatch(username, password)
       THEN /\ user' = IziDropUser
            /\ isAuthenticated' = TRUE
            /\ storedUser' = Stringify(IziDropUser)
       ELSE UNCHANGED <<user, isAuthenticated, storedUser>>
    /\ UNCHANGED <<providerMounted, homeVars, storeVars, cleanupVars, managerVars>>

\* logout
logout ==
    /\ AuthStep([op |-> "logout"])
    /\ user' = NullUser
    /\ isAuthenticated' = FALSE
    /\ storedUser' = NoStoredUser
    /\ UNCHANGED <<providerMounted, homeVars, storeVars, cleanupVars, managerVars>>

\* The page is loaded again: AuthProvider is constructed anew, the device's
\* storage is kept.
reload ==
    /\ AuthStep([op |-> "reload"])
    /\ user' = NullUser
    /\ isAuthenticated' = FALSE
    /\ providerMounted' = FALSE
    /\ UNCHANGED <<storedUser, homeVars, storeVars, cleanupVars, managerVars>>

(***************************************************************************)
(* Specification of the Home page                                          *)
(***************************************************************************)
(***************************************************************************)
(* Snapshot persistence: stateManager and the remote store                 *)
(***************************************************************************)
\* At most MaxCalls stateManager calls are made, while the clock shows one
\* of MaxClock milliseconds.
MaxCalls == 2
MaxClock == 2

\* Two calls can be in progress at once (two tabs share the local storage).
CallIds == {"call1", "call2"}

\* userId undefined
NoUser == ""
Users == {"alice", "bob"}
\* The users who save; every user lists, loads and deletes.
Owners == {"alice"}
SaveNames == {"plan"}

\* The application states that get saved; their four fields are opaque here.
AppStates ==
    {[budgetParams |-> "params A", iterations |-> "ledger A",
      chartData |-> "chart A", visibleChartItems |-> "items A"],
     [budgetParams |-> "params B", iterations |-> "ledger B",
      chartData |-> "chart B", visibleChartItems |-> "items B"]}

\* Date.now().toString(): the same string for two calls in one millisecond.
LocalId(t) == <<"Date.now", t>>
\* The id the database generates for the n-th create; never a Date.now() string.
RemoteId(n) == <<"db", n>>
\* An id no snapshot was ever given
UnknownId == <<"unknown", 0>>

\* SavedState
SavedState(id, name, date, state) ==
    [id |-> id, name |-> name, date |-> date,
     budgetParams |-> state.budgetParams, iterations |-> state.iterations,
     chartData |-> state.chartData, visibleChartItems |-> state.visibleChartItems]

\* The AppState held by a SavedState (what loadState returns)
AppStateOf(saved) ==
    [budgetParams |-> saved.budgetParams, iterations |-> saved.iterations,
     chartData |-> saved.chartData, visibleChartItems |-> saved.visibleChartItems]

Reverse(s) == [i \in 1..Len(s) |-> s[Len(s) + 1 - i]]

IdsOf(states) == {states[i].id : i \in 1..Len(states)}

\* GET /api/states/get: the owner's records, newest first
findMany(db, userId) ==
    LET IsOwned(r) == r.userId = userId
    IN Reverse(SelectSeq(db, IsOwned))

\* POST /api/states/save: the table after the create
create(db, id, userId, name, date, data) ==
    Append(db, [id |-> id, userId |-> userId, name |-> name, date |-> date,
                data |-> data])

\* The table after a deleteMany({id}) that does not look at the owner
deleteManyOfAnyOwner(db, id, userId) ==
    LET Kept(r) == r.id # id
    IN SelectSeq(db, Kept)

\* DELETE /api/states/delete: the table after deleteMany({id, userId})
deleteMany(db, id, userId) ==
    LET Kept(r) == ~(r.id = id /\ r.userId = userId)
    IN SelectSeq(db, Kept)

\* getSavedStates: formattedDbStates
formattedDbStates(dbStates) ==
    [i \in 1..Len(dbStates) |->
        SavedState(dbStates[i].id, dbStates[i].name, dbStates[i].date,
                   dbStates[i].data)]

\* getSavedStates: what it returns from the local states read and the
\* response of the remote store
getSavedStatesResult(localStates, db, userId, ok) ==
    IF userId # NoUser /\ ok
    THEN localStates \o formattedDbStates(findMany(db, userId))
    ELSE localStates

\* loadState: find by id, the four fields of the first match, or null (<<>>)
loadStateResult(savedStates, id) ==
    IF \E i \in 1..Len(savedStates) : savedStates[i].id = id
    THEN LET first == CHOOSE i \in 1..Len(savedStates) :
                         /\ savedStates[i].id = id
                         /\ \A j \in 1..(i - 1) : savedStates[j].id # id
         IN <<AppStateOf(savedStates[first])>>
    ELSE <<>>

\* The new state kept out of local storage when a remote create is to follow
updatedStatesUnlessOwned(savedStates, newState, userId) ==
    IF userId # NoUser THEN savedStates ELSE Append(savedStates, newState)

\* saveState: updatedStates, written to local storage before the remote call
updatedStates(savedStates, newState, userId) == Append(savedStates, newState)

\* saveState: the SavedState returned
returnedState(newState, ok, remoteId) ==
    IF ok THEN [newState EXCEPT !.id = remoteId] ELSE newState

\* deleteState: filteredStates
filteredStates(savedStates, id) ==
    LET Other(state) == state.id # id
    IN SelectSeq(savedStates, Other)

\* The filtered states written only when no remote delete is to follow
storedAfterRemoteDelete(savedStates, id, userId) ==
    IF userId # NoUser THEN savedStates ELSE filteredStates(savedStates, id)

\* deleteState: what is in local storage when the remote call is made
storedBeforeRemoteDelete(savedStates, id, userId) == filteredStates(savedStates, id)

NoState == [budgetParams |-> "", iterations |-> "", chartData |-> "",
            visibleChartItems |-> ""]

Idle ==
    [op |-> "idle", pc |-> "idle", id |-> UnknownId, userId |-> NoUser,
     authHeader |-> FALSE, name |-> "", state |-> NoState, savedStates |-> <<>>,
     newState |-> SavedState(UnknownId, "", 0, NoState), seq |-> 0,
     response |-> "none", listed |-> FALSE, stored |-> FALSE, result |-> <<>>]

StoreInit ==
    /\ localStorage = <<>>
    /\ database = <<>>
    /\ now = 1
    /\ calls = [c \in CallIds |-> Idle]
    /\ started = 0
    /\ history = [removed |-> {}, saved |-> {}]

\* A stateManager function is called on call slot c, which is free or holds
\* the result of a completed call; the second slot serves the calls made
\* while the call of the first is in progress.
Call(c, op, fields) ==
    /\ calls[c].pc \in {"idle", "done"}
    /\ c = "call2" => calls["call1"].pc \in {"read", "fetch"}
    /\ started < MaxCalls
    /\ started' = started + 1
    /\ calls' = [calls EXCEPT ![c] =
                   [f \in DOMAIN Idle |->
                      IF f \in DOMAIN fields THEN fields[f]
                      ELSE IF f = "op" THEN op
                      ELSE IF f = "seq" THEN started + 1
                      ELSE Idle[f]]]

Finish(c, response, result) ==
    calls' = [calls EXCEPT ![c].pc = "done", ![c].response = response,
                           ![c].result = result]

\* The readings Date.now() can give next: the same millisecond or a later one
ClockReadings == {t \in now..(now + 1) : t <= MaxClock}


KnownIds == IdsOf(localStorage) \cup IdsOf(database) \cup {UnknownId}

\* The history once a saveState call has returned the snapshot `id`
Saved(id, userId, state) ==
    [history EXCEPT !.saved = @ \cup {[id |-> id, userId |-> userId, state |-> state]}]

\* saveState, up to `await getSavedStates()`: the local states are read
saveState(c, name, state, userId) ==
    /\ Call(c, "saveState",
            [pc |-> "read", name |-> name, state |-> state, userId |-> userId,
             savedStates |-> getSavedStatesResult(localStorage, database, NoUser, FALSE)])
    /\ UNCHANGED <<localStorage, database, now, history, homeVars, authVars, cleanupVars, managerVars>>

\* saveState: newState is built and written to local storage
saveStateWrite(c) ==
    /\ calls[c].op = "saveState" /\ calls[c].pc = "read"
    /\ \E t \in ClockReadings :
       LET newState == SavedState(LocalId(t), calls[c].name, t, calls[c].state)
       IN /\ now' = t
          /\ localStorage' = updatedStates(calls[c].savedStates, newState, calls[c].userId)
          /\ calls' = [calls EXCEPT
                         ![c].newState = newState,
                         ![c].pc = IF calls[c].userId # NoUser THEN "fetch" ELSE "done",
                         ![c].result = IF calls[c].userId # NoUser THEN <<>>
                                       ELSE <<newState>>]
          /\ history' = IF calls[c].userId # NoUser THEN history
                        ELSE Saved(newState.id, NoUser, calls[c].state)
    /\ UNCHANGED <<database, started, homeVars, authVars, cleanupVars, managerVars>>

\* saveState: the response of POST /api/states/save (ok), or its failure
saveStateResponse(c, ok) ==
    /\ calls[c].op = "saveState" /\ calls[c].pc = "fetch"
    /\ database' = IF ok
                   THEN create(database, RemoteId(calls[c].seq), calls[c].userId,
                               calls[c].name, now, calls[c].state)
                   ELSE database
    /\ Finish(c, IF ok THEN "ok" ELSE "failed",
              <<returnedState(calls[c].newState, ok, RemoteId(calls[c].seq))>>)
    /\ history' = Saved(returnedState(calls[c].newState, ok, RemoteId(calls[c].seq)).id,
                        calls[c].userId, calls[c].state)
    /\ UNCHANGED <<localStorage, now, started, homeVars, authVars, cleanupVars, managerVars>>

\* What a delete call notes about its id when it is made
DeleteFields(id, userId) ==
    [pc |-> "read", id |-> id, userId |-> userId,
     savedStates |-> getSavedStatesResult(localStorage, database, NoUser, FALSE),
     listed |-> id \in IdsOf(getSavedStatesResult(localStorage, database, userId, TRUE)),
     stored |-> id \in IdsOf(localStorage) \cup IdsOf(database)]

\* deleteState (util/stateManager.ts), up to `await getSavedStates()`
deleteState(c, id, userId) ==
    /\ Call(c, "deleteState", DeleteFields(id, userId))
    /\ history' = [history EXCEPT !.removed = @ \cup {id}]
    /\ UNCHANGED <<localStorage, database, now, homeVars, authVars, cleanupVars, managerVars>>

\* deleteState: returns false when the filter removed nothing, else writes
\* the filtered states to local storage
deleteStateWrite(c) ==
    /\ calls[c].op = "deleteState" /\ calls[c].pc = "read"
    /\ IF Len(filteredStates(calls[c].savedStates, calls[c].id)) = Len(calls[c].savedStates)
       THEN /\ Finish(c, "none", <<FALSE>>)
            /\ UNCHANGED localStorage
       ELSE /\ localStorage' = storedBeforeRemoteDelete(calls[c].savedStates, calls[c].id,
                                                        calls[c].userId)
            /\ IF calls[c].userId # NoUser
               THEN calls' = [calls EXCEPT ![c].pc = "fetch"]
               ELSE Finish(c, "none", <<TRUE>>)
    /\ UNCHANGED <<database, now, started, history, homeVars, authVars, cleanupVars, managerVars>>

\* deleteState: the response of DELETE /api/states/delete, or its failure,
\* which is only logged
deleteStateResponse(c, ok) ==
    /\ calls[c].op = "deleteState" /\ calls[c].pc = "fetch"
    /\ database' = IF ok THEN deleteMany(database, calls[c].id, calls[c].userId)
                   ELSE database
    /\ Finish(c, IF ok THEN "ok" ELSE "failed", <<TRUE>>)
    /\ UNCHANGED <<localStorage, now, started, history, homeVars, authVars, cleanupVars, managerVars>>

\* deleteState of the revision that sends the session's bearer token
deleteStateBearer(c, id, userId, authHeader) ==
    /\ Call(c, "deleteStateBearer",
            [f \in DOMAIN DeleteFields(id, userId) \cup {"authHeader"} |->
                IF f = "authHeader" THEN authHeader ELSE DeleteFields(id, userId)[f]])
    /\ history' = [history EXCEPT !.removed = @ \cup {id}]
    /\ UNCHANGED <<localStorage, database, now, homeVars, authVars, cleanupVars, managerVars>>

\* deleteStateBearer: the filtered states are written whatever the filter removed
deleteStateBearerWrite(c) ==
    /\ calls[c].op = "deleteStateBearer" /\ calls[c].pc = "read"
    /\ localStorage' = filteredStates(calls[c].savedStates, calls[c].id)
    /\ IF calls[c].userId # NoUser /\ calls[c].authHeader
       THEN calls' = [calls EXCEPT ![c].pc = "fetch"]
       ELSE Finish(c, "none", <<TRUE>>)
    /\ UNCHANGED <<database, now, started, history, homeVars, authVars, cleanupVars, managerVars>>

\* deleteStateBearer: the response of the remote delete; a failure returns false
deleteStateBearerResponse(c, ok) ==
    /\ calls[c].op = "deleteStateBearer" /\ calls[c].pc = "fetch"
    /\ database' = IF ok THEN deleteMany(database, calls[c].id, calls[c].userId)
                   ELSE database
    /\ Finish(c, IF ok THEN "ok" ELSE "failed", <<ok>>)
    /\ UNCHANGED <<localStorage, now, started, history, homeVars, authVars, cleanupVars, managerVars>>

\* getSavedStates: local storage is read; with a userId the remote list is awaited
getSavedStates(c, userId) ==
    /\ Call(c, "getSavedStates",
            [pc |-> IF userId # NoUser THEN "fetch" ELSE "done", userId |-> userId,
             savedStates |-> localStorage,
             result |-> IF userId # NoUser THEN <<>> ELSE <<localStorage>>])
    /\ UNCHANGED <<localStorage, database, now, history, homeVars, authVars, cleanupVars, managerVars>>

\* getSavedStates: the response of GET /api/states/get, or its failure
getSavedStatesResponse(c, ok) ==
    /\ calls[c].op = "getSavedStates" /\ calls[c].pc = "fetch"
    /\ Finish(c, IF ok THEN "ok" ELSE "failed",
              <<getSavedStatesResult(calls[c].savedStates, database, calls[c].userId, ok)>>)
    /\ UNCHANGED <<localStorage, database, now, started, history, homeVars, authVars, cleanupVars, managerVars>>

\* loadState, up to the remote list of `await getSavedStates(userId)`
loadState(c, id, userId) ==
    /\ Call(c, "loadState",
            [pc |-> IF userId # NoUser THEN "fetch" ELSE "done", id |-> id,
             userId |-> userId, savedStates |-> localStorage,
             result |-> IF userId # NoUser THEN <<>>
                        ELSE loadStateResult(localStorage, id)])
    /\ UNCHANGED <<localStorage, database, now, history, homeVars, authVars, cleanupVars, managerVars>>

\* loadState: the list arrives (or only the local states, on failure) and the
\* snapshot is looked up in it
loadStateResponse(c, ok) ==
    /\ calls[c].op = "loadState" /\ calls[c].pc = "fetch"
    /\ Finish(c, IF ok THEN "ok" ELSE "failed",
              loadStateResult(getSavedStatesResult(calls[c].savedStates, database,
                                                   calls[c].userId, ok),
                              calls[c].id))
    /\ UNCHANGED <<localStorage, database, now, started, history, homeVars, authVars, cleanupVars, managerVars>>

(***************************************************************************)
(* Remote cleanup: POST /api/states/cleanup and cleanupDatabase            *)
(***************************************************************************)
\* The stretches of days that pass between two steps on the table.
DaysPassing == {1, RetentionDays}

CleanupInit ==
    /\ savedStates_table = {}
    /\ today = 1
    /\ cleanupLog = <<>>

CleanupStep(result) ==
    /\ Len(cleanupLog) < MaxCleanupSteps
    /\ cleanupLog' = Append(cleanupLog, result)

\* A save of `userId` reaches the table: the row is dated new Date().
insertState(userId) ==
    /\ CleanupStep([op |-> "insert", success |-> TRUE, count |-> 0])
    /\ savedStates_table' = savedStates_table
          \cup {[id |-> RemoteId(Len(cleanupLog) + 1), userId |-> userId, date |-> today]}
    /\ UNCHANGED <<today, homeVars, storeVars, authVars, managerVars>>

daysPass(days) ==
    /\ CleanupStep([op |-> "daysPass", success |-> TRUE, count |-> 0])
    /\ today' = today + days
    /\ UNCHANGED <<savedStates_table, homeVars, storeVars, authVars, managerVars>>

\* thirtyDaysAgo.setDate(thirtyDaysAgo.getDate() - 30)
thirtyDaysAgo(date) == date - RetentionDays

\* The rows that .delete().lt('date', threshold) would match with no
\* retention: every row dated before the request.
datedBeforeToday(tbl, date) == {r \in tbl : r.date < date}

\* The rows matched by .delete().lt('date', thirtyDaysAgo.toISOString())
matchedRows(tbl, date) == {r \in tbl : r.date < thirtyDaysAgo(date)}

\* The cleanup route, and what cleanupDatabase returns for its response:
\* {success: true, count} for 200, {success: false, count: 0} otherwise.
cleanupDatabase(ok) ==
    /\ LET data == matchedRows(savedStates_table, today)
       IN IF ok
          THEN /\ savedStates_table' = savedStates_table \ data
               /\ CleanupStep([op |-> "cleanup", success |-> TRUE,
                               count |-> Cardinality(data)])
          ELSE /\ UNCHANGED savedStates_table
               /\ CleanupStep([op |-> "cleanup", success |-> FALSE, count |-> 0])
    /\ UNCHANGED <<today, homeVars, storeVars, authVars, managerVars>>

(***************************************************************************)
(* SaveStateManager: the snapshot list of the component                    *)
(***************************************************************************)
\* At most MaxManagerSteps handlers of the component run.
MaxManagerSteps == 3

ManagerInit ==
    /\ managerSavedStates = <<>>
    /\ managerLog = <<>>

\* The component shows its buttons to an authenticated user; one more of its
\* handlers runs to completion.
ManagerStep(op) ==
    /\ isAuthenticated
    /\ Len(managerLog) < MaxManagerSteps
    /\ managerLog' = Append(managerLog, op)

\* The load effect: setSavedStates(await getSavedStates(user?.id)).  (The
\* cleanup it runs first removes rows older than 30 days; none is that old.)
fetchSavedStates(ok) ==
    /\ ManagerStep("fetch")
    /\ managerSavedStates' = getSavedStatesResult(localStorage, database, user.id, ok)
    /\ UNCHANGED <<storeVars, homeVars, authVars, cleanupVars>>

\* handleSaveState with a non-blank name: saveState(saveName, currentState,
\* user?.id) runs to its end and the state it returns is appended to the list.
handleSaveState(name, state, ok) ==
    /\ ManagerStep("save")
    /\ \E t \in ClockReadings :
       LET userId == user.id
           read == getSavedStatesResult(localStorage, database, NoUser, FALSE)
           newState == SavedState(LocalId(t), name, t, state)
           remoteId == RemoteId(Len(managerLog) + 1)
           created == userId # NoUser /\ ok
       IN /\ now' = t
          /\ localStorage' = updatedStates(read, newState, userId)
          /\ database' = IF created
                         THEN create(database, remoteId, userId, name, t, state)
                         ELSE database
          /\ managerSavedStates' = Append(managerSavedStates, returnedState(newState, created, remoteId))
    /\ UNCHANGED <<calls, started, history, homeVars, authVars, cleanupVars>>

\* handleDeleteState for the selected entry of the list: deleteState(id,
\* user?.id) runs to its end; when it returns true the entries with that id
\* leave the list, when it returns false the list is kept.
handleDeleteState(selectedState, ok) ==
    /\ ManagerStep("delete")
    /\ LET userId == user.id
           stateIdToDelete == selectedState.id
           read == getSavedStatesResult(localStorage, database, NoUser, FALSE)
       IN IF Len(filteredStates(read, stateIdToDelete)) = Len(read)
          THEN UNCHANGED <<localStorage, database, managerSavedStates>>
          ELSE /\ localStorage' = storedBeforeRemoteDelete(read, stateIdToDelete, userId)
               /\ database' = IF userId # NoUser /\ ok
                              THEN deleteMany(database, stateIdToDelete, userId)
                              ELSE database
               /\ managerSavedStates' = filteredStates(managerSavedStates, stateIdToDelete)
    /\ UNCHANGED <<now, calls, started, history, homeVars, authVars, cleanupVars>>

Init == HomeInit /\ StoreInit /\ AuthInit /\ CleanupInit /\ ManagerInit

\* The Home page.  The add form is left with the values the page itself
\* gives it (handleIterationChange is not among the steps).
Next ==
    \/ Mount
    \/ \E name \in NumericParamNames : \E value \in NumericParamValues(name) :
           handleParamChange(name, value)
    \/ \E value \in CurrencyValues : handleParamChange("currency", value)
    \/ addIteration
    \/ regenerateIterations
    \/ addIterationsToReachBudget
    \/ \E r \in EditableRows : \E value \in EditDayValues : editIterationDays(r, value)
    \/ \E r \in EditableRows : \E value \in EditTeamValues : editIterationTeamSize(r, value)
    \/ \E r \in EditableRows : \E value \in EditHourValues : editIterationTotalHours(r, value)
    \/ \E r \in MarkableRows : markIterationCurrent(r)
    \/ \E row \in ParameterFiles \cup {generateParametersTemplate(budgetParams)} :
           importParameters(row)
    \/ \E file \in IterationFiles : importIterations(file)
    \/ \E state \in SavedAppStates : handleLoadState(state)

Spec == Init /\ [][Next]_vars

\* The add form: the user types into its fields and adds, on the ledger of
\* the mount or of an imported file.
NextForm ==
    \/ Mount
    \/ \E name \in FormNames : \E value \in FormValues(name) :
           handleIterationChange(name, value)
    \/ addIteration
    \/ \E file \in IterationFiles : importIterations(file)

SpecForm == Init /\ [][NextForm]_vars

\* The auth gate over the reloads of a page.
NextAuth ==
    \/ restoreUser
    \/ \E username \in Usernames : \E password \in Passwords : login(username, password)
    \/ logout
    \/ reload

SpecAuth == Init /\ [][NextAuth]_vars

\* The snapshot list of SaveStateManager for the user who logged in.
NextManager ==
    \/ restoreUser
    \/ login(HardcodedUsername, HardcodedPassword)
    \/ \E ok \in BOOLEAN : fetchSavedStates(ok)
    \/ \E name \in SaveNames : \E state \in AppStates : \E ok \in BOOLEAN :
           handleSaveState(name, state, ok)
    \/ \E i \in 1..Len(managerSavedStates) : \E ok \in BOOLEAN :
           handleDeleteState(managerSavedStates[i], ok)

SpecManager == Init /\ [][NextManager]_vars

\* The table of the cleanup route over the days.
NextCleanup ==
    \/ \E userId \in Users : insertState(userId)
    \/ \E days \in DaysPassing : daysPass(days)
    \/ \E ok \in BOOLEAN : cleanupDatabase(ok)

SpecCleanup == Init /\ [][NextCleanup]_vars

\* The stateManager calls, step by step, with the answers of the remote store.
NextStore ==
    \/ \E c \in CallIds : \E name \in SaveNames : \E state \in AppStates :
          \E userId \in Owners \cup {NoUser} : saveState(c, name, state, userId)
    \/ \E c \in CallIds : saveStateWrite(c)
    \/ \E c \in CallIds : \E ok \in BOOLEAN : saveStateResponse(c, ok)
    \/ \E c \in CallIds : \E id \in KnownIds : \E userId \in Users \cup {NoUser} :
          deleteState(c, id, userId)
    \/ \E c \in CallIds : deleteStateWrite(c)
    \/ \E c \in CallIds : \E ok \in BOOLEAN : deleteStateResponse(c, ok)
    \/ \E c \in CallIds : \E id \in KnownIds : \E userId \in Users \cup {NoUser} :
          \E authHeader \in {h \in BOOLEAN : h => userId # NoUser} :
             deleteStateBearer(c, id, userId, authHeader)
    \/ \E c \in CallIds : deleteStateBearerWrite(c)
    \/ \E c \in CallIds : \E ok \in BOOLEAN : deleteStateBearerResponse(c, ok)
    \/ \E c \in CallIds : \E userId \in Users \cup {NoUser} : getSavedStates(c, userId)
    \/ \E c \in CallIds : \E ok \in BOOLEAN : getSavedStatesResponse(c, ok)
    \/ \E c \in CallIds : \E id \in KnownIds : \E userId \in Users \cup {NoUser} :
          loadState(c, id, userId)
    \/ \E c \in CallIds : \E ok \in BOOLEAN : loadStateResponse(c, ok)

SpecStore == Init /\ [][NextStore]_vars

(***************************************************************************)
(* Properties                                                              *)
(***************************************************************************)
PositiveParams(p) ==
    /\ p.costPerHour > 0 /\ p.budgetSize > 0
    /\ p.teamSize > 0 /\ p.workingDaysPerIteration > 0

\* min(100, ceil(budgetSize / (costPerHour * 8 * teamSize * workingDaysPerIteration)))
\* stated without division: the least n with n * cost >= budgetSize, at most 100.
ExpectedFillLength(p) ==
    LET c == p.costPerHour * 8 * p.teamSize * p.workingDaysPerIteration
    IN IF 100 * c < p.budgetSize THEN 100
       ELSE CHOOSE n \in 1..100 : n * c >= p.budgetSize /\ (n - 1) * c < p.budgetSize

\* C1: whenever the pre-fill effect has just filled the empty ledger under
\* positive budget parameters, the ledger has exactly
\* min(100, ceil(budgetSize / (costPerHour*8*teamSize*workingDaysPerIteration)))
\* records; the fill on mount, under the default parameters, gives 5 records.
C1_InitialFillLength ==
    /\ (effect = "prefill" /\ PositiveParams(budgetParams))
          => Len(iterations) = ExpectedFillLength(budgetParams)
    /\ (mounted /\ steps = 0) => (effect = "prefill" /\ Len(iterations) = 5)

\* The pre-fill effect has filled an emptied ledger up to the 100-record cap.
C1_Witness ==
    /\ effect = "prefill" /\ steps > 0
    /\ PositiveParams(budgetParams)
    /\ budgetParams.budgetSize
         > 100 * budgetParams.costPerHour * 8 * budgetParams.teamSize
               * budgetParams.workingDaysPerIteration
    /\ Len(iterations) = 100

\* Position, in iterationNumber order, of the record flagged current (the
\* first one flagged); the last position when no record is flagged.
CurrentRecordPosition(sorted) ==
    IF \E i \in 1..Len(sorted) : sorted[i].isCurrent
    THEN CHOOSE i \in 1..Len(sorted) :
            sorted[i].isCurrent /\ \A j \in 1..(i - 1) : ~sorted[j].isCurrent
    ELSE Len(sorted)

\* Sum of costPerHour * (stored totalHours) over the first k records of `sorted`
StoredCostUpTo(p, sorted, k) ==
    SumRange([j \in 1..Len(sorted) |-> p.costPerHour * sorted[j].totalHours], 1, k)

UniqueNumbers(its) ==
    \A i, j \in 1..Len(its) :
        its[i].iterationNumber = its[j].iterationNumber => i = j

\* C2: in the projection, the actual cumulative cost at the current record
\* equals the sum of costPerHour * totalHours (the stored, possibly overridden
\* hours) over the records at or before the current record in
\* iterationNumber order.
C2_ActualAtCurrentIsSumOfStoredCosts ==
    mounted =>
      LET sorted == SortByNumber(iterations)
          c == CurrentRecordPosition(sorted)
      IN chartData[c + 1].cumulativeActual = StoredCostUpTo(budgetParams, sorted, c)

\* The statement of C2 on the ledgers whose iteration numbers are unique.
C2_OnUniqueNumbers ==
    UniqueNumbers(iterations) => C2_ActualAtCurrentIsSumOfStoredCosts

\* C3: the standard cumulative cost at the k-th record (in iterationNumber
\* order) is k * costPerHour*8*teamSize*workingDaysPerIteration of the budget
\* parameters, whatever days, team size or hours the records hold.
C3_StandardCumulative ==
    mounted =>
      /\ Len(chartData) = Len(iterations) + 1
      /\ \A k \in 1..Len(iterations) :
            chartData[k + 1].cumulativeStandard
              = k * budgetParams.costPerHour * 8 * budgetParams.teamSize
                  * budgetParams.workingDaysPerIteration

\* A ledger in which a record's days, team size and hours were all edited
\* away from the standard ones.
C3_Witness ==
    /\ mounted /\ Len(iterations) >= 3
    /\ \E i \in 1..Len(iterations) :
          /\ iterations[i].iterationDays # budgetParams.workingDaysPerIteration
          /\ iterations[i].teamSize # budgetParams.teamSize
          /\ iterations[i].totalHours # StandardHoursPerIteration(budgetParams)
          /\ iterations[i].totalHours
               # iterations[i].iterationDays * iterations[i].teamSize * 8

\* What the budget panel shows in the present state
ShownMetrics == calculateBudgetMetrics(chartData, budgetParams, iterations)

\* C4: the consumption shown is the projection's actual cumulative cost at
\* the current record and the percentage shown is 100 times that cost over
\* budgetSize; ticking "current" on iteration 3 of the default five-record
\* ledger shows 60000 consumed, 60 percent.
C4_ShownConsumption ==
    (mounted /\ budgetParams.budgetSize # 0) =>
      LET sorted == SortByNumber(iterations)
          c == CurrentRecordPosition(sorted)
      IN /\ ShownMetrics.consumed = chartData[c + 1].cumulativeActual
         /\ ShownMetrics.percentage.num = 100 * chartData[c + 1].cumulativeActual
         /\ ShownMetrics.percentage.den = budgetParams.budgetSize

\* The statement of C4 on the ledgers whose iteration numbers are unique.
C4_OnUniqueNumbers ==
    UniqueNumbers(iterations) => C4_ShownConsumption

\* The default ledger of five standard records, whichever one is current
DefaultLedgerValues(its) ==
    /\ Len(its) = 5
    /\ \A i \in 1..5 :
          /\ its[i].iterationNumber = i /\ its[i].iterationDays = 10
          /\ its[i].teamSize = 5 /\ its[i].totalHours = 400

\* C4, the worked case: iteration 3 current in the default ledger under the
\* default parameters shows 60000 consumed and 60 percent.
C4_DefaultMarkThree ==
    (/\ mounted
     /\ budgetParams.costPerHour = 50 /\ budgetParams.budgetSize = 100000
     /\ DefaultLedgerValues(iterations)
     /\ \A i \in 1..5 : iterations[i].isCurrent <=> i = 3)
    => /\ ShownMetrics.consumed = 60000
       /\ ShownMetrics.percentage.num = 60 * ShownMetrics.percentage.den

\* C4, the frame: ticking the "current" checkbox keeps the ledger's length
\* and every record's number, days, team size and hours.
SameRecordValues(a, b) ==
    /\ Len(a) = Len(b)
    /\ \A i \in 1..Len(a) :
          /\ a[i].iterationNumber = b[i].iterationNumber
          /\ a[i].iterationDays = b[i].iterationDays
          /\ a[i].teamSize = b[i].teamSize
          /\ a[i].totalHours = b[i].totalHours

C4_MarkKeepsLedger ==
    [][(\E r \in MarkableRows : markIterationCurrent(r))
          => SameRecordValues(iterations, iterations')]_vars

DeleteOps == {"deleteState", "deleteStateBearer"}

\* What getSavedStates(userId) returns in the present state when the remote
\* store answers
ListedIds(userId) ==
    IdsOf(getSavedStatesResult(localStorage, database, userId, TRUE))

\* C5: once deleteState(id, ownerId) has completed for an id that
\* getSavedStates(ownerId) listed (its remote delete, where issued, answered),
\* getSavedStates(ownerId) lists no snapshot with that id.
C5_DeletedIdNoLongerListed ==
    \A c \in CallIds :
        (/\ calls[c].op \in DeleteOps /\ calls[c].pc = "done"
         /\ calls[c].userId # NoUser /\ calls[c].listed
         /\ calls[c].op = "deleteStateBearer" => calls[c].authHeader
         /\ calls[c].response # "failed")
        => calls[c].id \notin ListedIds(calls[c].userId)

\* C6: deleteState with an id that matched no stored snapshot returns false.
C6_UnknownIdReturnsFalse ==
    \A c \in CallIds :
        (calls[c].op \in DeleteOps /\ calls[c].pc = "done" /\ ~calls[c].stored)
        => calls[c].result = <<FALSE>>

\* The statement of C6 for deleteState of util/stateManager.ts alone.
C6_InStateManager ==
    \A c \in CallIds :
        (calls[c].op = "deleteState" /\ calls[c].pc = "done" /\ ~calls[c].stored)
        => calls[c].result = <<FALSE>>

\* C6, the frame: a deleteState call whose id matched no stored snapshot
\* leaves the records of local storage as it read them and removes no
\* remote record.
C6_UnknownIdChangesNothing ==
    [][\A c \in CallIds :
          (calls[c].op \in DeleteOps /\ ~calls[c].stored /\ calls'[c] # calls[c])
          => /\ database' = database
             /\ localStorage' \in {localStorage, calls[c].savedStates}]_vars

\* C7: when saveState has completed with a successful remote create, local
\* storage holds a record with the id of the SavedState it returned.
C7_LocalRecordCarriesReturnedId ==
    \A c \in CallIds :
        (calls[c].op = "saveState" /\ calls[c].pc = "done" /\ calls[c].response = "ok")
        => calls[c].result[1].id \in IdsOf(localStorage)

\* C8: saveState writes the new snapshot to local storage with or without a
\* userId, and when the remote create fails it returns the new snapshot and
\* leaves local storage as it is.
C8_SaveIsLocalFirst ==
    [][\A c \in CallIds :
          /\ saveStateWrite(c) =>
                \E i \in 1..Len(localStorage') : localStorage'[i] = calls'[c].newState
          /\ saveStateResponse(c, FALSE) =>
                /\ calls'[c].pc = "done"
                /\ calls'[c].result = <<calls[c].newState>>
                /\ localStorage' = localStorage]_vars

\* A save for an owner has returned its snapshot after the remote create
\* failed, and the snapshot is in local storage.
C8_Witness ==
    \E c \in CallIds :
        /\ calls[c].op = "saveState" /\ calls[c].pc = "done"
        /\ calls[c].userId # NoUser /\ calls[c].response = "failed"
        /\ calls[c].result = <<calls[c].newState>>
        /\ \E i \in 1..Len(localStorage) : localStorage[i] = calls[c].newState

\* C9: loadState called with the id a completed saveState returned, and the
\* same userId, returns the state that was saved (no deleteState was called
\* for the id).
C9_LoadReturnsSavedState ==
    \A c \in CallIds :
        (/\ calls[c].op = "loadState" /\ calls[c].pc = "done"
         /\ calls[c].id \notin history.removed
         /\ \E h \in history.saved : h.id = calls[c].id /\ h.userId = calls[c].userId)
        => \E h \in history.saved :
              /\ h.id = calls[c].id /\ h.userId = calls[c].userId
              /\ calls[c].result = <<h.state>>


\* C10: deleteState removes the local record of an id it read in local
\* storage before the remote delete is made, and a failed remote delete
\* leaves local storage without it.
C10_LocalDeleteSurvivesRemoteFailure ==
    [][\A c \in CallIds :
          /\ ((deleteStateWrite(c) \/ deleteStateBearerWrite(c))
              /\ calls[c].id \in IdsOf(calls[c].savedStates))
                => calls[c].id \notin IdsOf(localStorage')
          /\ (deleteStateResponse(c, FALSE) \/ deleteStateBearerResponse(c, FALSE))
                => /\ localStorage' = localStorage
                   /\ calls'[c].pc = "done"]_vars

\* A delete of an id held in local storage has completed after its remote
\* delete failed, and local storage holds no record with the id.
C10_Witness ==
    \E c \in CallIds :
        /\ calls[c].op \in DeleteOps /\ calls[c].pc = "done"
        /\ calls[c].response = "failed"
        /\ calls[c].id \in IdsOf(calls[c].savedStates)
        /\ calls[c].id \notin IdsOf(localStorage)

\* C11: no two records of the ledger have the same iterationNumber.
C11_UniqueIterationNumbers == UniqueNumbers(iterations)

\* The statement of C11 for every step but the iterations CSV import: a
\* ledger with unique numbers keeps them unique.
C11_KeptByOtherSteps ==
    [][(UniqueNumbers(iterations) /\ ~\E file \in IterationFiles : importIterations(file))
          => UniqueNumbers(iterations')]_vars

\* C12: at most one record of the ledger is flagged current.
C12_AtMostOneCurrent ==
    Cardinality({i \in 1..Len(iterations) : iterations[i].isCurrent}) <= 1

\* The statement of C12 for every step but the iterations CSV import, on
\* ledgers with unique iteration numbers.
C12_KeptByOtherSteps ==
    [][(C12_AtMostOneCurrent /\ UniqueNumbers(iterations) /\ ~\E file \in IterationFiles : importIterations(file))
          => C12_AtMostOneCurrent']_vars

\* C13: every step leaves a ledger of at most 100 records, and addIteration on
\* a ledger of 100 records reports the maximum and leaves the ledger as it was.
C13_AtMostHundredRecords ==
    [][/\ Len(iterations') <= MaxIterations
       /\ (Len(iterations) >= MaxIterations /\ addIteration)
            => (iterations' = iterations /\ toasts' = {"error:maximum-iterations"})]_vars

\* addIteration was rejected on a ledger of 100 records.
C13_Witness ==
    /\ Len(iterations) = MaxIterations
    /\ toasts = {"error:maximum-iterations"}

NonDecreasing(cd) ==
    /\ Len(cd) > 0 => (cd[1].cumulativeStandard = 0 /\ cd[1].cumulativeActual = 0)
    /\ \A k \in 1..(Len(cd) - 1) :
          /\ cd[k + 1].cumulativeStandard >= cd[k].cumulativeStandard
          /\ cd[k + 1].cumulativeActual >= cd[k].cumulativeActual

\* C14: the computed series starts at 0 and neither cumulativeStandard nor
\* cumulativeActual decreases from one point to the next.
C14_SeriesNonDecreasing == NonDecreasing(chartData)

PositiveRecords(its) ==
    \A i \in 1..Len(its) :
        its[i].iterationDays > 0 /\ its[i].teamSize > 0 /\ its[i].totalHours > 0

\* The statement of C14 where no parameter is negative and every record of
\* the ledger has positive days, team size and hours.
C14_OnPositiveData ==
    (/\ \A name \in NumericParamNames : budgetParams[name] >= 0
     /\ PositiveRecords(iterations))
       => NonDecreasing(chartData)

\* C15: importing the row that generateParametersTemplate exports for the
\* current parameters leaves all five fields of the parameters as they were.
C15_ExportImportRoundTrip ==
    [][importParameters(generateParametersTemplate(budgetParams))
          => budgetParams' = budgetParams]_vars

\* The statement of C15 for parameters with no numeric field 0 and a
\* currency that is not empty.
C15_OnTruthyFields ==
    [][(/\ \A name \in NumericParamNames : budgetParams[name] # 0
        /\ budgetParams.currency # ""
        /\ importParameters(generateParametersTemplate(budgetParams)))
          => budgetParams' = budgetParams]_vars

LongFiles == {file \in IterationFiles : Len(file) > MaxIterations}

\* The records of the rows lo..hi of a file that pass the validation, in
\* file order.
ValidRecordsOfRows(file, lo, hi) ==
    ValidIterations([i \in 1..(hi - lo + 1) |-> ParseIterationRow(file[lo + i - 1])])

\* C16: the import of a file of more than 100 rows raises the notification
\* and stores the records of the first 100 rows, in file order, and no
\* record of a later row.
C16_OnlyFirstHundredRows ==
    [][\A file \in LongFiles :
          importIterations(file) =>
             /\ "error:more-than-100-rows" \in toasts'
             /\ iterations' = ValidRecordsOfRows(file, 1, MaxIterations)
             /\ \A i \in (MaxIterations + 1)..Len(file) :
                   \A k \in 1..Len(iterations') :
                      iterations'[k].iterationNumber
                         # ParseIterationRow(file[i]).iterationNumber]_vars

\* A file of 101 rows was imported.
C16_Witness ==
    /\ "error:more-than-100-rows" \in toasts
    /\ Len(iterations) = MaxIterations
    /\ \A k \in 1..Len(iterations) : iterations[k].iterationNumber = k

\* A row whose iterationNumber, iterationDays or teamSize is not positive.
BadRow(item) ==
    LET it == ParseIterationRow(item)
    IN it.iterationNumber <= 0 \/ it.iterationDays <= 0 \/ it.teamSize <= 0

\* A row that supplies a negative totalHours.
NegativeHoursRow(item) ==
    item.totalHours # NoNumber /\ item.totalHours[1] < 0

\* C17: after an iterations import every record of the ledger has positive
\* iterationNumber, iterationDays, teamSize and totalHours, and a file with a
\* row that has a non-positive field raises the warning.
C17_ImportedRecordsPositive ==
    [][\A file \in IterationFiles :
          importIterations(file) =>
             /\ \A k \in 1..Len(iterations') :
                   /\ iterations'[k].iterationNumber > 0
                   /\ iterations'[k].iterationDays > 0
                   /\ iterations'[k].teamSize > 0
                   /\ iterations'[k].totalHours > 0
             /\ (\E i \in 1..Min(Len(file), MaxIterations) :
                    BadRow(file[i]) \/ NegativeHoursRow(file[i]))
                  => "warning:invalid-rows-skipped" \in toasts']_vars

\* The statement of C17 without totalHours: the stored records have positive
\* iterationNumber, iterationDays and teamSize, they are the rows that have,
\* and a file with a row that has not raises the warning.
C17_OnOtherFields ==
    [][\A file \in IterationFiles :
          importIterations(file) =>
             /\ \A k \in 1..Len(iterations') :
                   /\ iterations'[k].iterationNumber > 0
                   /\ iterations'[k].iterationDays > 0
                   /\ iterations'[k].teamSize > 0
             /\ Len(iterations') =
                   Cardinality({i \in 1..Min(Len(file), MaxIterations) : ~BadRow(file[i])})
             /\ (\E i \in 1..Min(Len(file), MaxIterations) : BadRow(file[i]))
                  => "warning:invalid-rows-skipped" \in toasts']_vars

\* The form's number is the number of a record of the ledger.
NumberPresent(its, form) ==
    \E i \in 1..Len(its) : its[i].iterationNumber = form.iterationNumber

AddIterationErrors ==
    {"error:maximum-iterations", "error:values-must-be-positive", "error:iteration-exists"}

\* C18: addIteration with a non-positive iterationNumber, iterationDays or
\* teamSize in the form, or with a number the ledger already holds, reports
\* an error and leaves the ledger and the form as they were.
C18_RejectedAddChangesNothing ==
    [][(/\ addIteration
        /\ \/ newIteration.iterationNumber <= 0
           \/ newIteration.iterationDays <= 0
           \/ newIteration.teamSize <= 0
           \/ NumberPresent(iterations, newIteration))
          => /\ \E err \in AddIterationErrors : toasts' = {err}
             /\ iterations' = iterations
             /\ newIteration' = newIteration]_vars

\* An add was rejected for a number that a record of the ledger has.
C18_Witness ==
    /\ toasts = {"error:iteration-exists"}
    /\ NumberPresent(iterations, newIteration)
    /\ newIteration.iterationDays > 0 /\ newIteration.teamSize > 0

\* An add was rejected for a field of the form that is not positive.
C18_WitnessNonPositive ==
    /\ toasts = {"error:values-must-be-positive"}
    /\ newIteration.iterationDays <= 0 \/ newIteration.teamSize <= 0
          \/ newIteration.iterationNumber <= 0

\* C19: the id that saveState gives the new snapshot is the id of no
\* snapshot of the local collection the call has read.
C19_NewIdIsFresh ==
    [][\A c \in CallIds :
          saveStateWrite(c) =>
             calls'[c].newState.id \notin IdsOf(calls[c].savedStates)]_vars

\* The statement of C19 for a save that reads the clock at a later
\* millisecond than every save before it.
C19_OnLaterMillisecond ==
    [][\A c \in CallIds :
          (saveStateWrite(c) /\ now' > now) =>
             calls'[c].newState.id \notin IdsOf(calls[c].savedStates) \cup IdsOf(localStorage)]_vars

\* What the last call of the session returned
LastReturned(log) == log[Len(log)].returned

\* C20: login returns true exactly for the two hardcoded strings, and then
\* the gate is AUTHENTICATED and the user is in device storage; any other
\* login returns false and leaves the gate and the storage as they were;
\* logout leaves the gate ANONYMOUS and the storage without the user; on a
\* mounted page nothing else changes the gate, and the mount of a reloaded
\* page gives the gate the state that the stored user stands for.
C20_AuthGate ==
    [][/\ \A username \in Usernames : \A password \in Passwords :
            login(username, password) =>
               /\ LastReturned(authLog')
                     = (username = "IziDrop" /\ password = HardcodedPassword)
               /\ LastReturned(authLog') =>
                     /\ isAuthenticated'
                     /\ user' = [id |-> "IziDrop"]
                     /\ storedUser' = Stringify(user')
               /\ ~LastReturned(authLog') =>
                     UNCHANGED <<user, isAuthenticated, storedUser>>
       /\ logout => (~isAuthenticated' /\ storedUser' = NoStoredUser)
       /\ (providerMounted /\ providerMounted' /\ isAuthenticated' # isAuthenticated)
            => \/ logout
               \/ \E username \in Usernames : \E password \in Passwords :
                     login(username, password)
       /\ restoreUser => (isAuthenticated' = (storedUser # NoStoredUser))]_vars

\* A session with a refused login, an accepted one and a logout.
C20_Witness ==
    /\ Len(authLog) = 3
    /\ authLog[1].op = "login" /\ ~authLog[1].returned
    /\ authLog[2].op = "login" /\ authLog[2].returned
    /\ authLog[3].op = "logout"
    /\ ~isAuthenticated /\ storedUser = NoStoredUser

\* A reloaded page has restored the user of an earlier login.
C20_WitnessRestored ==
    /\ Len(authLog) = 2
    /\ authLog[1].op = "login" /\ authLog[2].op = "reload"
    /\ providerMounted /\ isAuthenticated /\ user = IziDropUser

\* The last step on the table was a cleanup that completed.
AfterCompletedCleanup(log) ==
    Len(log) > 0 /\ log[Len(log)].op = "cleanup" /\ log[Len(log)].success

\* C21: a cleanup removes no row dated within the last 30 days, and a cleanup
\* made right after a completed one removes nothing and leaves the table as
\* it was.
C21_CleanupIdempotent ==
    [][\A ok \in BOOLEAN :
          cleanupDatabase(ok) =>
             /\ \A r \in savedStates_table :
                   r.date >= today - 30 => r \in savedStates_table'
             /\ AfterCompletedCleanup(cleanupLog)
                  => /\ savedStates_table' = savedStates_table
                     /\ cleanupLog'[Len(cleanupLog')].count = 0]_vars

\* A cleanup that removed a row was followed at once by one that removed
\* none, with a row dated exactly 30 days earlier still in the table.
C21_Witness ==
    /\ Len(cleanupLog) >= 2
    /\ cleanupLog[Len(cleanupLog) - 1] = [op |-> "cleanup", success |-> TRUE, count |-> 1]
    /\ cleanupLog[Len(cleanupLog)] = [op |-> "cleanup", success |-> TRUE, count |-> 0]
    /\ \E r \in savedStates_table : r.date = today - 30

RecordsOf(db) == {db[i] : i \in 1..Len(db)}

\* C22: the response to a list request of a user holds no record of the
\* remote store that another user owns, and a delete request of a user for an
\* id removes from the remote store only records with that id owned by that
\* user.
C22_OwnerScoped ==
    [][\A c \in CallIds :
          /\ getSavedStatesResponse(c, TRUE) =>
                \A r \in RecordsOf(database) :
                   r.userId # calls[c].userId => r.id \notin IdsOf(calls'[c].result[1])
          /\ (deleteStateResponse(c, TRUE) \/ deleteStateBearerResponse(c, TRUE)) =>
                \A r \in RecordsOf(database) \ RecordsOf(database') :
                   r.userId = calls[c].userId /\ r.id = calls[c].id]_vars

\* The remote delete of a user for the id of a record that another user owns
\* was answered, and the record is still in the remote store.
C22_Witness ==
    \E c \in CallIds :
       /\ calls[c].op = "deleteStateBearer" /\ calls[c].pc = "done"
       /\ calls[c].response = "ok"
       /\ \E r \in RecordsOf(database) : r.id = calls[c].id /\ r.userId # calls[c].userId

\* A user's list was answered while the remote store held a record of
\* another user.
C22_WitnessList ==
    \E c \in CallIds :
       /\ calls[c].op = "getSavedStates" /\ calls[c].pc = "done"
       /\ calls[c].response = "ok"
       /\ \E r \in RecordsOf(database) : r.userId # calls[c].userId

\* A step of handleParamChange, on a numeric field or on the currency.
ParamChangeStep ==
    \/ \E name \in NumericParamNames : \E value \in NumericParamValues(name) :
          handleParamChange(name, value)
    \/ \E value \in CurrencyValues : handleParamChange("currency", value)

\* ceil(budgetSize / standardIterationCost), stated without division.
IterationsNeeded(p) ==
    LET c == p.costPerHour * 8 * p.teamSize * p.workingDaysPerIteration
    IN CHOOSE n \in 0..(p.budgetSize + 1) :
          n * c >= p.budgetSize /\ (n - 1) * c < p.budgetSize

\* The ledger asks for regeneration under the parameters p.
MustRegenerate(p, its) ==
    LET sorted == SortByNumber(its)
        needed == IterationsNeeded(p)
    IN \/ needed - Len(its) > 3 \/ Len(its) - needed > 3
       \/ StoredCostUpTo(p, sorted, CurrentRecordPosition(sorted)) > p.budgetSize

\* Records numbered 1..min(100, needed) with the default days, team size and
\* hours of p.
FreshlyGenerated(p, its) ==
    /\ Len(its) = ExpectedFillLength(p)
    /\ \A i \in 1..Len(its) :
          /\ its[i].iterationNumber = i
          /\ its[i].iterationDays = p.workingDaysPerIteration
          /\ its[i].teamSize = p.teamSize
          /\ its[i].totalHours = 8 * p.teamSize * p.workingDaysPerIteration

\* A ledger the claims on reconciliation speak of: not empty, numbers unique,
\* at most one record current, every record with positive hours.
SoundLedger(its) ==
    /\ Len(its) > 0 /\ UniqueNumbers(its) /\ PositiveRecords(its)
    /\ Cardinality({i \in 1..Len(its) : its[i].isCurrent}) <= 1

\* C23: a parameter change that leaves positive parameters and a ledger
\* whose length is more than 3 away from ceil(budgetSize /
\* standardIterationCost), or whose actual cost up to the current record
\* exceeds budgetSize, ends with the freshly generated ledger.
C23_RegeneratesLedger ==
    [][(/\ SoundLedger(iterations)
        /\ PositiveParams(budgetParams')
        /\ ParamChangeStep
        /\ MustRegenerate(budgetParams', iterations))
          => FreshlyGenerated(budgetParams', iterations')]_vars

\* The statement of C23 where the freshly generated ledger has another
\* length than the ledger had.
C23_OnOtherLength ==
    [][(/\ SoundLedger(iterations)
        /\ PositiveParams(budgetParams')
        /\ ParamChangeStep
        /\ MustRegenerate(budgetParams', iterations)
        /\ ExpectedFillLength(budgetParams') # Len(iterations))
          => FreshlyGenerated(budgetParams', iterations')]_vars

\* ceil(x / c) for c > 0, stated without division: the least m with m * c >= x.
LeastMultiple(x, c) ==
    IF x <= 0 THEN 0 ELSE CHOOSE m \in 1..x : m * c >= x /\ (m - 1) * c < x

\* The number of records the claim has appended to the ledger under p.
ExpectedAppended(p, its) ==
    LET sorted == SortByNumber(its)
        c == p.costPerHour * 8 * p.teamSize * p.workingDaysPerIteration
        cur == CurrentRecordPosition(sorted)
        projected == StoredCostUpTo(p, sorted, cur) + (Len(its) - cur) * c
    IN IF projected < p.budgetSize
       THEN Min(LeastMultiple(p.budgetSize - projected, c), 100 - Len(its))
       ELSE 0

HighestNumber(its) ==
    CHOOSE n \in {its[i].iterationNumber : i \in 1..Len(its)} :
        \A i \in 1..Len(its) : its[i].iterationNumber <= n

\* `after` is `before` with `count` default-shaped records appended.
OnlyAppended(p, before, after, count) ==
    /\ Len(after) = Len(before) + count
    /\ {after[i] : i \in 1..Len(before)} = {before[i] : i \in 1..Len(before)}
    /\ \A k \in 1..count :
          after[Len(before) + k] =
             [iterationNumber |-> HighestNumber(before) + k,
              iterationDays |-> p.workingDaysPerIteration,
              teamSize |-> p.teamSize,
              totalHours |-> 8 * p.teamSize * p.workingDaysPerIteration,
              isCurrent |-> FALSE]

\* C24: a parameter change that leaves positive parameters and a ledger that
\* does not ask for regeneration keeps every record as it was, current flag
\* included, and appends min(ceil((budgetSize - projected) /
\* standardIterationCost), 100 - length) default records, none current,
\* numbered from the highest number on, when the projected cumulative is
\* below budgetSize, and none otherwise.
C24_OnlyAppends ==
    [][(/\ Len(iterations) > 0
        /\ PositiveParams(budgetParams')
        /\ ParamChangeStep
        /\ ~MustRegenerate(budgetParams', iterations))
          => OnlyAppended(budgetParams', iterations, iterations',
                          ExpectedAppended(budgetParams', iterations))]_vars

\* The statement of C24 on ledgers with unique numbers, at most one current
\* record and positive hours.
C24_OnSoundLedgers ==
    [][(/\ SoundLedger(iterations)
        /\ PositiveParams(budgetParams')
        /\ ParamChangeStep
        /\ ~MustRegenerate(budgetParams', iterations))
          => OnlyAppended(budgetParams', iterations, iterations',
                          ExpectedAppended(budgetParams', iterations))]_vars

\* The pre-fill effect has just filled the ledger, or handleParamChange has
\* just run on a ledger that was not empty.
FilledOrReconciled ==
    \/ effect' = "prefill"
    \/ (Len(iterations) > 0 /\ ParamChangeStep)

FlaggedPositions(sorted) == {k \in 1..Len(sorted) : sorted[k].isCurrent}

\* The position of the first flagged record (0 when none is flagged)
FirstFlagged(sorted) ==
    IF FlaggedPositions(sorted) = {} THEN 0
    ELSE CHOOSE k \in FlaggedPositions(sorted) :
             \A j \in FlaggedPositions(sorted) : k <= j

\* What the actual cumulative curve grows by at the k-th record
ActualGrowth(k) == chartData[k + 1].cumulativeActual - chartData[k].cumulativeActual

\* C26: in the projection every record positioned after the current one makes
\* the actual cumulative cost grow by exactly the standard iteration cost,
\* and when no record is flagged current every record makes it grow by its
\* own cost (the last record in iterationNumber order is the current one).
C26_ProjectionAfterCurrent ==
    mounted =>
        LET sorted == SortByNumber(iterations)
            cur == FirstFlagged(sorted)
        IN /\ Len(chartData) = Len(sorted) + 1
           /\ cur > 0 =>
                 \A k \in (cur + 1)..Len(sorted) :
                     ActualGrowth(k) = StandardIterationCost(budgetParams)
           /\ cur = 0 =>
                 \A k \in 1..Len(sorted) :
                     ActualGrowth(k) = IterationCost(budgetParams, sorted[k])

\* A record is flagged current and a record after it has a cost of its own
\* that is not the standard cost.
C26_Witness ==
    /\ mounted
    /\ LET sorted == SortByNumber(iterations)
           cur == FirstFlagged(sorted)
       IN /\ cur > 0
          /\ \E k \in (cur + 1)..Len(sorted) :
                 IterationCost(budgetParams, sorted[k])
                     # StandardIterationCost(budgetParams)

\* No record is flagged current and a record has a cost of its own that is
\* not the standard cost.
C26_WitnessNoCurrent ==
    /\ mounted
    /\ LET sorted == SortByNumber(iterations)
       IN /\ FirstFlagged(sorted) = 0
          /\ \E k \in 1..Len(sorted) :
                 IterationCost(budgetParams, sorted[k])
                     # StandardIterationCost(budgetParams)

\* C27: loading a snapshot, once the effects it triggers have run, leaves the
\* ledger equal to the snapshot's stored iterations.
C27_LoadKeepsLedger ==
    [][\A state \in SavedAppStates :
          handleLoadState(state) => iterations' = state.iterations]_vars

\* The page the third snapshot was taken from: the default parameters and the
\* ledger imported from FileOverrides.
C27_SnapshotIsReachable ==
    /\ mounted
    /\ AppState(budgetParams, iterations)
          = AppState(DefaultBudgetParams,
                     ValidIterations(ParsedIterations(FileOverrides)))
    /\ chartData = ComputeChartData(budgetParams, iterations)

\* What holds instead: the loaded ledger begins with the snapshot's records
\* (flags aside) and is at least as long.
C27_LoadKeepsOrExtendsLedger ==
    [][\A state \in SavedAppStates :
          handleLoadState(state)
            => /\ Len(iterations') >= Len(state.iterations)
               /\ \/ \A i \in 1..Len(state.iterations) :
                        [iterations'[i] EXCEPT !.isCurrent = FALSE]
                          = [state.iterations[i] EXCEPT !.isCurrent = FALSE]
                  \/ MustRegenerate(state.budgetParams, state.iterations)]_vars

\* An edit of the currency symbol alone
CurrencyEdit == \E value \in CurrencyValues : handleParamChange("currency", value)

\* C28: editing only the currency symbol leaves the ledger unchanged: no
\* record is appended, removed or regenerated and the current flag stays.
C28_CurrencyEditKeepsLedger ==
    [][CurrencyEdit => iterations' = iterations]_vars

\* What holds instead: the edit keeps a ledger whose projected actual cost
\* already reaches the budget and that does not ask for regeneration.
C28_OnReconciledLedgers ==
    [][(/\ CurrencyEdit
        /\ Len(ensureActualCumulativeCrossesTotalBudget(budgetParams, iterations))
              = Len(iterations))
          => iterations' = iterations]_vars

\* A save or a delete made through the component has completed
ManagerSaveOrDelete ==
    \/ \E name \in SaveNames : \E state \in AppStates : \E ok \in BOOLEAN :
           handleSaveState(name, state, ok)
    \/ \E i \in 1..Len(managerSavedStates) : \E ok \in BOOLEAN :
           handleDeleteState(managerSavedStates[i], ok)

\* The same ids and the same count
SameEntries(list, fresh) ==
    Len(list) = Len(fresh) /\ IdsOf(list) = IdsOf(fresh)

\* C29: after every completed save or delete made through the component by
\* an authenticated user, on a list that had the entries of the stored
\* snapshots, the list has the same ids and the same count as a fresh
\* getSavedStates(ownerId) returns.
C29_ListMatchesFreshList ==
    [][(/\ SameEntries(managerSavedStates,
                       getSavedStatesResult(localStorage, database, user.id, TRUE))
        /\ ManagerSaveOrDelete)
          => SameEntries(managerSavedStates',
                         getSavedStatesResult(localStorage', database', user'.id, TRUE))]_vars

\* The records of a list
RecordsIn(states) == {states[i] : i \in 1..Len(states)}

\* Two saveState calls have completed, and each had read the stored
\* collection before the other wrote it.
InterleavedSavesDone ==
    /\ \A c \in CallIds : calls[c].op = "saveState" /\ calls[c].pc = "done"
    /\ \A c, d \in CallIds :
          c # d => calls[d].newState \notin RecordsIn(calls[c].savedStates)

\* C30: when two saveState calls on one local storage interleave, each
\* reading the stored collection before the other writes it, both new
\* snapshots and all snapshots stored before are in local storage after both
\* have completed.
C30_InterleavedSavesKeepBoth ==
    InterleavedSavesDone
      => \A c \in CallIds :
            /\ calls[c].newState \in RecordsIn(localStorage)
            /\ RecordsIn(calls[c].savedStates) \subseteq RecordsIn(localStorage)
====
